---- MODULE Spec2Model ----
(***************************************************************************)
(* Model of the fact-generator action handlers (src/db/tables.ts): the     *)
(* four tables and the nine server actions over them.                      *)
(*                                                                         *)
(* An optional value (a zod .optional() input, a nullable column) is a set *)
(* of at most one element: {} is undefined/NULL, {v} is the value v.       *)
(* A table is the sequence of its rows in id order: ids are auto-increment *)
(* and no handler deletes, so the row with id i is at index i.             *)
(***************************************************************************)
EXTENDS Integers, Sequences, FiniteSets, TLC

VARIABLES topics, facts, requests, states, now, last, calls

vars == <<topics, facts, requests, states, now, last, calls>>

(***************************************************************************)
(* Bounds of the exploration.                                              *)
(***************************************************************************)
\* Number of store writes explored; every write samples new Date() and the
\* clock has moved on by the next one.
MaxClock == 2
\* Number of updateUserFactState requests that can be in flight at once.
MaxInFlight == 2

Users == {"u1", "u2"}
\* context.locals.user is undefined
NoUser == "<anonymous>"
Callers == Users \cup {NoUser}

None == {}
Some(v) == {v}
Val(opt) == CHOOSE v \in opt : TRUE
Opt(S) == {None} \cup {Some(v) : v \in S}

Rows(tbl) == {tbl[i] : i \in 1..Len(tbl)}

(***************************************************************************)
(* JavaScript helpers.                                                     *)
(***************************************************************************)
\* a ?? b
Coalesce(opt, dflt) == IF opt = None THEN dflt ELSE Val(opt)
\* a ?? b where b is itself nullable (input.seenAt ?? existing?.seenAt)
CoalesceOpt(opt, other) == IF opt = None THEN other ELSE opt
\* if (x) for an optional number: undefined and 0 are falsy
TruthyNum(opt) == opt # None /\ opt # Some(0)
\* !x for an optional string: undefined/NULL and "" are falsy
FalsyStr(opt) == opt = None \/ opt = Some("")

(***************************************************************************)
(* Outcome of a handler: the error code or OK, the rows it returns, the    *)
(* table it wrote as it is afterwards, and whether a write was issued.     *)
(***************************************************************************)
Fail(code, tbl) == [code |-> code, rows |-> {}, tbl |-> tbl, wrote |-> FALSE]
Done(rows, tbl, wrote) == [code |-> "OK", rows |-> rows, tbl |-> tbl, wrote |-> wrote]

\* requireUser: throws UNAUTHORIZED when there is no user
\* (fault: the guard lets everyone through)
requireUserAlways(u) == TRUE
requireUser(u) == u # NoUser

(***************************************************************************)
(* Store primitives shared by the handlers.                                *)
(***************************************************************************)
\* .where(eq(T.id, id)).limit(1)
SelectById(tbl, id) == {r \in Rows(tbl) : r.id = id}

\* .where(and(eq(T.id, id), eq(T.ownerId, user.id))).limit(1)
\* (fault: the ownerId condition is dropped)
SelectOwnedAnyOwner(tbl, id, u) == {r \in Rows(tbl) : r.id = id}
SelectOwned(tbl, id, u) == {r \in Rows(tbl) : r.id = id /\ r.ownerId = Some(u)}

\* updateData: the entries of rest whose value is not undefined
UpdateKeys(rest) == {k \in DOMAIN rest : rest[k] # None}

\* The value a column takes from an input entry: a nullable column keeps
\* the optional, a NOT NULL column its value.
ColValue(nullable, k, opt) == IF k \in nullable THEN opt ELSE Val(opt)

\* .set({...updateData, updatedAt: new Date()}) on one row
\* (fault: an omitted nullable field is written as NULL)
SetRowClobber(row, rest, nullable, t) ==
    [k \in DOMAIN row |->
        IF k \in DOMAIN rest
        THEN (IF rest[k] = None
              THEN (IF k \in nullable THEN None ELSE row[k])
              ELSE ColValue(nullable, k, rest[k]))
        ELSE IF k = "updatedAt" THEN t ELSE row[k]]
SetRow(row, rest, nullable, t) ==
    [k \in DOMAIN row |->
        IF k \in UpdateKeys(rest) THEN ColValue(nullable, k, rest[k])
        ELSE IF k = "updatedAt" THEN t
        ELSE row[k]]

\* db.update(T).set(...).where(and(eq(T.id, id), eq(T.ownerId, user.id)))
UpdateOwned(tbl, id, u, rest, nullable, t) ==
    [i \in 1..Len(tbl) |->
        IF tbl[i].id = id /\ tbl[i].ownerId = Some(u)
        THEN SetRow(tbl[i], rest, nullable, t)
        ELSE tbl[i]]

\* const isMine = !row.ownerId || row.ownerId === user.id
\* (fault: the owner filter is dropped)
IsMineAlways(ownerId, u) == TRUE
IsMine(ownerId, u) == FalsyStr(ownerId) \/ ownerId = Some(u)

\* includeInactive ? true : row.isActive
ActiveFilter(includeInactive, isActive) == IF includeInactive THEN TRUE ELSE isActive

(***************************************************************************)
(* Topic Manager.                                                          *)
(***************************************************************************)
TopicNullable == {"description", "slug"}

\* .values({...}) of createTopic, with the auto-increment id
NewTopicRow(id, u, input, t) ==
    [id |-> id, ownerId |-> Some(u), name |-> input.name,
     description |-> input.description, slug |-> input.slug,
     isActive |-> Coalesce(input.isActive, TRUE),
     createdAt |-> t, updatedAt |-> t]

createTopic(u, input) ==
    IF ~requireUser(u) THEN Fail("UNAUTHORIZED", topics)
    ELSE LET topic == NewTopicRow(Len(topics) + 1, u, input, now)
         IN  Done({topic}, Append(topics, topic), TRUE)

updateTopic(u, id, rest) ==
    IF ~requireUser(u) THEN Fail("UNAUTHORIZED", topics)
    ELSE LET existing == SelectOwned(topics, id, u)
         IN  IF existing = {} THEN Fail("NOT_FOUND", topics)
             ELSE IF UpdateKeys(rest) = {} THEN Done(existing, topics, FALSE)
             ELSE LET tbl == UpdateOwned(topics, id, u, rest, TopicNullable, now)
                  IN  Done({tbl[i] : i \in {j \in 1..Len(tbl) :
                                tbl[j].id = id /\ tbl[j].ownerId = Some(u)}},
                           tbl, TRUE)

listTopics(u, input) ==
    IF ~requireUser(u) THEN Fail("UNAUTHORIZED", topics)
    ELSE LET includeInactive == Coalesce(input.includeInactive, FALSE)
         IN  Done({topic \in Rows(topics) :
                      IsMine(topic.ownerId, u)
                      /\ ActiveFilter(includeInactive, topic.isActive)},
                  topics, FALSE)

(***************************************************************************)
(* Fact Manager.                                                           *)
(***************************************************************************)
FactNullable == {"topicId", "source", "sourceMeta"}

\* the topic lookup of createFact/createRequest: if (input.topicId) {...}
\* finds no row
TopicMissingOnCreate(topicId) ==
    TruthyNum(topicId) /\ SelectById(topics, Val(topicId)) = {}

\* the topic lookup of updateFact: typeof rest.topicId !== "undefined"
TopicMissingOnUpdate(topicId) ==
    topicId # None /\ SelectById(topics, Val(topicId)) = {}

\* (fault: the insert leaves ownerId out)
NewFactRowNoOwner(id, u, input, t) ==
    [id |-> id, topicId |-> input.topicId, content |-> input.content,
     difficulty |-> Coalesce(input.difficulty, "basic"),
     source |-> input.source, sourceMeta |-> input.sourceMeta,
     origin |-> Coalesce(input.origin, "ai"),
     ownerId |-> None,
     isActive |-> Coalesce(input.isActive, TRUE),
     createdAt |-> t, updatedAt |-> t]
\* .values({...}) of createFact, with the auto-increment id
NewFactRow(id, u, input, t) ==
    [id |-> id, topicId |-> input.topicId, content |-> input.content,
     difficulty |-> Coalesce(input.difficulty, "basic"),
     source |-> input.source, sourceMeta |-> input.sourceMeta,
     origin |-> Coalesce(input.origin, "ai"),
     ownerId |-> Some(u),
     isActive |-> Coalesce(input.isActive, TRUE),
     createdAt |-> t, updatedAt |-> t]

createFact(u, input) ==
    IF ~requireUser(u) THEN Fail("UNAUTHORIZED", facts)
    ELSE IF TopicMissingOnCreate(input.topicId) THEN Fail("NOT_FOUND", facts)
    ELSE LET fact == NewFactRow(Len(facts) + 1, u, input, now)
         IN  Done({fact}, Append(facts, fact), TRUE)

updateFact(u, id, rest) ==
    IF ~requireUser(u) THEN Fail("UNAUTHORIZED", facts)
    ELSE LET existing == SelectOwned(facts, id, u)
         IN  IF existing = {} THEN Fail("NOT_FOUND", facts)
             ELSE IF TopicMissingOnUpdate(rest.topicId) THEN Fail("NOT_FOUND", facts)
             ELSE IF UpdateKeys(rest) = {} THEN Done(existing, facts, FALSE)
             ELSE LET tbl == UpdateOwned(facts, id, u, rest, FactNullable, now)
                  IN  Done({tbl[i] : i \in {j \in 1..Len(tbl) :
                                tbl[j].id = id /\ tbl[j].ownerId = Some(u)}},
                           tbl, TRUE)

\* input?.topicId ? fact.topicId === input.topicId : true
MatchesTopic(filter, topicId) == IF TruthyNum(filter) THEN topicId = filter ELSE TRUE

listFacts(u, input) ==
    IF ~requireUser(u) THEN Fail("UNAUTHORIZED", facts)
    ELSE LET includeInactive == Coalesce(input.includeInactive, FALSE)
         IN  Done({fact \in Rows(facts) :
                      MatchesTopic(input.topicId, fact.topicId)
                      /\ IsMine(fact.ownerId, u)
                      /\ ActiveFilter(includeInactive, fact.isActive)},
                  facts, FALSE)

(***************************************************************************)
(* Request Logger.                                                         *)
(***************************************************************************)
NewRequestRow(id, u, input, t) ==
    [id |-> id, userId |-> Some(u), topicId |-> input.topicId,
     prompt |-> input.prompt, input |-> input.input, output |-> input.output,
     status |-> Coalesce(input.status, "pending"), createdAt |-> t]

createRequest(u, input) ==
    IF ~requireUser(u) THEN Fail("UNAUTHORIZED", requests)
    ELSE IF TopicMissingOnCreate(input.topicId) THEN Fail("NOT_FOUND", requests)
    ELSE LET request == NewRequestRow(Len(requests) + 1, u, input, now)
         IN  Done({request}, Append(requests, request), TRUE)

(***************************************************************************)
(* User-State Manager.                                                     *)
(***************************************************************************)
\* .where(and(eq(S.factId, factId), eq(S.userId, user.id))).limit(1): no
\* ORDER BY, so any matching row may be the one returned
\* (fault: the existing row is never found)
SelectStateNever(factId, u) == {None}
SelectState(factId, u) ==
    LET hits == {s \in Rows(states) : s.factId = factId /\ s.userId = u}
    IN  IF hits = {} THEN {None} ELSE {Some(s) : s \in hits}

\* one merged field: input.f ?? existing?.f ?? dflt
\* (fault: an omitted field falls back to the default, not to the row)
MergedOverwrite(opt, existing, f, dflt) == Coalesce(opt, dflt)
Merged(opt, existing, f, dflt) ==
    Coalesce(opt, IF existing = None THEN dflt ELSE Val(existing)[f])

baseValues(u, input, existing, t) ==
    [factId |-> input.factId, userId |-> u,
     seen |-> Merged(input.seen, existing, "seen", FALSE),
     seenAt |-> CoalesceOpt(input.seenAt,
                            IF existing = None THEN None ELSE Val(existing).seenAt),
     isFavorite |-> Merged(input.isFavorite, existing, "isFavorite", FALSE),
     reaction |-> Merged(input.reaction, existing, "reaction", "none"),
     createdAt |-> IF existing = None THEN t ELSE Val(existing).createdAt,
     updatedAt |-> t]

StateRow(id, base) ==
    [id |-> id, userId |-> base.userId, factId |-> base.factId,
     seen |-> base.seen, seenAt |-> base.seenAt, isFavorite |-> base.isFavorite,
     reaction |-> base.reaction, createdAt |-> base.createdAt,
     updatedAt |-> base.updatedAt]

\* if (existing) update ... where id = existing.id; else insert
writeState(tbl, existing, base) ==
    IF existing # None
    THEN LET id == Val(existing).id
         IN  Done({StateRow(id, base)},
                  [i \in 1..Len(tbl) |-> IF tbl[i].id = id THEN StateRow(id, base)
                                         ELSE tbl[i]],
                  TRUE)
    ELSE LET state == StateRow(Len(tbl) + 1, base)
         IN  Done({state}, Append(tbl, state), TRUE)

\* the handler run to completion, `existing` being what its second select
\* returned
updateUserFactState(u, input, existing) ==
    IF ~requireUser(u) THEN Fail("UNAUTHORIZED", states)
    ELSE IF SelectById(facts, input.factId) = {} THEN Fail("NOT_FOUND", states)
    ELSE writeState(states, existing, baseValues(u, input, existing, now))

listUserFactState(u, input) ==
    IF ~requireUser(u) THEN Fail("UNAUTHORIZED", states)
    ELSE LET mine == {s \in Rows(states) : s.userId = u}
         IN  Done(IF Coalesce(input.onlyFavorites, FALSE)
                  THEN {s \in mine : s.isFavorite} ELSE mine,
                  states, FALSE)

(***************************************************************************)
(* State.  topics, facts, requests, states are the four tables; now is the *)
(* clock new Date() reads; last is the most recent call and its outcome;   *)
(* calls holds the updateUserFactState requests that are between two of    *)
(* their awaited store statements.                                         *)
(***************************************************************************)
Slots == 1..MaxInFlight

IdleCall == [pc |-> "idle", user |-> NoUser, input |-> <<>>, existing |-> None]

NoCall == [op |-> "none", user |-> NoUser, input |-> <<>>, code |-> "OK",
           rows |-> {}, repeat |-> FALSE]

\* Rows the store holds before the first request: shared rows without an
\* owner (ownerId is an optional column), written before the clock starts.
SeedTopic ==
    [id |-> 1, ownerId |-> None, name |-> "General", description |-> None,
     slug |-> None, isActive |-> TRUE, createdAt |-> 0, updatedAt |-> 0]
SeedFact ==
    [id |-> 1, topicId |-> Some(1), content |-> "seed", difficulty |-> "basic",
     source |-> None, sourceMeta |-> None, origin |-> "curated",
     ownerId |-> None, isActive |-> TRUE, createdAt |-> 0, updatedAt |-> 0]

Init ==
    /\ topics = <<SeedTopic>>
    /\ facts = <<SeedFact>>
    /\ requests = <<>>
    /\ states = <<>>
    /\ now = 1
    /\ last = NoCall
    /\ calls = [p \in Slots |-> IdleCall]

\* the call just made, as the caller saw it
Log(op, u, input, r) ==
    [op |-> op, user |-> u, input |-> input, code |-> r.code, rows |-> r.rows,
     repeat |-> (last.op = op /\ last.user = u /\ last.input = input)]

\* a write samples the clock, which has advanced by the next write
Clock(r) ==
    /\ r.wrote => now <= MaxClock
    /\ now' = IF r.wrote THEN now + 1 ELSE now

(***************************************************************************)
(* Inputs the actions draw from.                                           *)
(***************************************************************************)
NoTopicFields == [name |-> None, description |-> None, slug |-> None, isActive |-> None]

TopicCreateInputs ==
    {[name |-> "Space", description |-> Some("the cosmos"), slug |-> None,
      isActive |-> None]}

TopicEdit == [NoTopicFields EXCEPT !.name = Some("Astronomy"), !.isActive = Some(FALSE)]

TopicPatches == {NoTopicFields, TopicEdit}

ListTopicInputs == {[includeInactive |-> None], [includeInactive |-> Some(TRUE)]}

NoFactFields ==
    [topicId |-> None, content |-> None, difficulty |-> None, source |-> None,
     sourceMeta |-> None, origin |-> None, isActive |-> None]

FactHidden ==
    [NoFactFields EXCEPT !.content = "Hidden", !.isActive = Some(FALSE),
                         !.origin = Some("user"), !.source = Some("a book")]

FactCreateInputs ==
    {[NoFactFields EXCEPT !.content = "The sun is a star", !.topicId = Some(tid)] :
        tid \in {0, 999}}
    \cup {FactHidden}

FactEdit == [NoFactFields EXCEPT !.content = Some("Edited"), !.topicId = Some(1)]

FactPatches == {NoFactFields, FactEdit}

FactRetopics == {[NoFactFields EXCEPT !.topicId = Some(tid)] : tid \in {-1, 0, 2}}

ListFactInputs ==
    {[topicId |-> None, includeInactive |-> None],
     [topicId |-> Some(0), includeInactive |-> Some(TRUE)],
     [topicId |-> Some(1), includeInactive |-> None]}

NoRequestFields ==
    [topicId |-> None, prompt |-> None, input |-> None, output |-> None, status |-> None]

RequestLogged == [NoRequestFields EXCEPT !.topicId = Some(1), !.prompt = Some("5 facts")]

RequestInputs ==
    {RequestLogged} \cup
    {[NoRequestFields EXCEPT !.topicId = Some(tid), !.prompt = Some("5 facts")] :
        tid \in {0, 999}}

NoStateFields == [seen |-> None, seenAt |-> None, isFavorite |-> None, reaction |-> None]

SeenOnly == [NoStateFields EXCEPT !.seen = Some(TRUE)]
FavoriteOnly == [NoStateFields EXCEPT !.isFavorite = Some(TRUE)]

StatePatches ==
    {NoStateFields, SeenOnly, FavoriteOnly,
     [NoStateFields EXCEPT !.seen = Some(FALSE), !.seenAt = Some(7),
                           !.reaction = Some("like")]}

ListStateInputs == {[onlyFavorites |-> None], [onlyFavorites |-> Some(TRUE)]}

WithId(id, rest) == [k \in DOMAIN rest \cup {"id"} |-> IF k = "id" THEN id ELSE rest[k]]
WithFactId(id, rest) ==
    [k \in DOMAIN rest \cup {"factId"} |-> IF k = "factId" THEN id ELSE rest[k]]

(***************************************************************************)
(* One action per server action, each handler run to completion, for the   *)
(* callers C and the inputs I a specification explores.                    *)
(***************************************************************************)
CreateTopic(C, I) ==
    \E u \in C, input \in I :
        LET r == createTopic(u, input)
        IN  /\ Clock(r)
            /\ topics' = r.tbl
            /\ last' = Log("createTopic", u, input, r)
            /\ UNCHANGED <<facts, requests, states, calls>>

UpdateTopic(C, I) ==
    \E u \in C, id \in 1..(Len(topics) + 1), rest \in I :
        LET r == updateTopic(u, id, rest)
        IN  /\ Clock(r)
            /\ topics' = r.tbl
            /\ last' = Log("updateTopic", u, WithId(id, rest), r)
            /\ UNCHANGED <<facts, requests, states, calls>>

ListTopics(C, I) ==
    \E u \in C, input \in I :
        LET r == listTopics(u, input)
        IN  /\ Clock(r)
            /\ topics' = r.tbl
            /\ last' = Log("listTopics", u, input, r)
            /\ UNCHANGED <<facts, requests, states, calls>>

CreateFact(C, I) ==
    \E u \in C, input \in I :
        LET r == createFact(u, input)
        IN  /\ Clock(r)
            /\ facts' = r.tbl
            /\ last' = Log("createFact", u, input, r)
            /\ UNCHANGED <<topics, requests, states, calls>>

UpdateFact(C, I) ==
    \E u \in C, id \in 1..(Len(facts) + 1), rest \in I :
        LET r == updateFact(u, id, rest)
        IN  /\ Clock(r)
            /\ facts' = r.tbl
            /\ last' = Log("updateFact", u, WithId(id, rest), r)
            /\ UNCHANGED <<topics, requests, states, calls>>

ListFacts(C, I) ==
    \E u \in C, input \in I :
        LET r == listFacts(u, input)
        IN  /\ Clock(r)
            /\ facts' = r.tbl
            /\ last' = Log("listFacts", u, input, r)
            /\ UNCHANGED <<topics, requests, states, calls>>

CreateRequest(C, I) ==
    \E u \in C, input \in I :
        LET r == createRequest(u, input)
        IN  /\ Clock(r)
            /\ requests' = r.tbl
            /\ last' = Log("createRequest", u, input, r)
            /\ UNCHANGED <<topics, facts, states, calls>>

UpdateUserFactState(C, I) ==
    \E u \in C, factId \in 1..(Len(facts) + 1), rest \in I :
        LET input == WithFactId(factId, rest)
        IN  \E existing \in SelectState(factId, u) :
                LET r == updateUserFactState(u, input, existing)
                IN  /\ Clock(r)
                    /\ states' = r.tbl
                    /\ last' = Log("updateUserFactState", u, input, r)
                    /\ UNCHANGED <<topics, facts, requests, calls>>

ListUserFactState(C, I) ==
    \E u \in C, input \in I :
        LET r == listUserFactState(u, input)
        IN  /\ Clock(r)
            /\ states' = r.tbl
            /\ last' = Log("listUserFactState", u, input, r)
            /\ UNCHANGED <<topics, facts, requests, calls>>

(***************************************************************************)
(* updateUserFactState statement by statement: the handler awaits each of  *)
(* its three store statements, the store runs each statement atomically    *)
(* and nothing wraps the three in a transaction, so other requests run     *)
(* between them.                                                           *)
(***************************************************************************)
\* requireUser, then the select of the fact
UfsSelectFact(p, C, I) ==
    /\ calls[p].pc = "idle"
    /\ \E u \in C, factId \in 1..(Len(facts) + 1), rest \in I :
          LET input == WithFactId(factId, rest)
          IN  IF ~requireUser(u)
              THEN /\ last' = Log("updateUserFactState", u, input,
                                  Fail("UNAUTHORIZED", states))
                   /\ UNCHANGED calls
              ELSE IF SelectById(facts, input.factId) = {}
              THEN /\ last' = Log("updateUserFactState", u, input,
                                  Fail("NOT_FOUND", states))
                   /\ UNCHANGED calls
              ELSE /\ calls' = [calls EXCEPT ![p] =
                                   [pc |-> "selectState", user |-> u,
                                    input |-> input, existing |-> None]]
                   /\ UNCHANGED last
    /\ UNCHANGED <<topics, facts, requests, states, now>>

\* the select of the existing state row
UfsSelectState(p) ==
    /\ calls[p].pc = "selectState"
    /\ \E existing \in SelectState(calls[p].input.factId, calls[p].user) :
          calls' = [calls EXCEPT ![p].pc = "write", ![p].existing = existing]
    /\ UNCHANGED <<topics, facts, requests, states, now, last>>

\* baseValues, then the update or the insert
UfsWrite(p) ==
    /\ calls[p].pc = "write"
    /\ LET c == calls[p]
           r == writeState(states, c.existing,
                           baseValues(c.user, c.input, c.existing, now))
       IN  /\ Clock(r)
           /\ states' = r.tbl
           /\ last' = Log("updateUserFactState", c.user, c.input, r)
    /\ calls' = [calls EXCEPT ![p] = IdleCall]
    /\ UNCHANGED <<topics, facts, requests>>

(***************************************************************************)
(* Specifications.                                                         *)
(***************************************************************************)
\* every server action, one input each
Next ==
    \/ CreateTopic(Callers, TopicCreateInputs)
    \/ UpdateTopic(Callers, {TopicEdit})
    \/ ListTopics(Callers, {[includeInactive |-> None]})
    \/ CreateFact(Callers, {FactHidden})
    \/ UpdateFact(Callers, {FactEdit})
    \/ ListFacts(Callers, {[topicId |-> None, includeInactive |-> None]})
    \/ CreateRequest(Callers, {RequestLogged})
    \/ UpdateUserFactState(Callers, {SeenOnly})
    \/ ListUserFactState(Callers, {[onlyFavorites |-> None]})

Spec == Init /\ [][Next]_vars

\* the Topic Manager and the Fact Manager
NextCatalog ==
    \/ CreateTopic(Callers, TopicCreateInputs)
    \/ UpdateTopic(Callers, TopicPatches)
    \/ ListTopics(Callers, ListTopicInputs)
    \/ CreateFact(Callers, FactCreateInputs)
    \/ UpdateFact(Callers, FactPatches)
    \/ ListFacts(Callers, ListFactInputs)

SpecCatalog == Init /\ [][NextCatalog]_vars

\* the writes that carry a topicId
NextRefs ==
    \/ CreateTopic(Users, TopicCreateInputs)
    \/ CreateFact(Users, FactCreateInputs)
    \/ UpdateFact(Users, FactRetopics)
    \/ CreateRequest(Users, RequestInputs)

SpecRefs == Init /\ [][NextRefs]_vars

\* the User-State Manager, its calls one after the other
NextEngage ==
    \/ UpdateUserFactState(Callers, StatePatches)
    \/ ListUserFactState(Callers, ListStateInputs)

SpecEngage == Init /\ [][NextEngage]_vars

\* the User-State Manager, its calls overlapping
NextOverlap ==
    \E p \in Slots :
        \/ UfsSelectFact(p, Callers, {SeenOnly, FavoriteOnly})
        \/ UfsSelectState(p)
        \/ UfsWrite(p)

SpecOverlap == Init /\ [][NextOverlap]_vars

(***************************************************************************)
(* Inputs the properties quantify over: for each handler, the empty input, *)
(* every single field, and all fields at once.                             *)
(***************************************************************************)
OneField(none, k, vs) == {[none EXCEPT ![k] = Some(v)] : v \in vs}

TopicProbes ==
    {NoTopicFields,
     [name |-> Some("Astronomy"), description |-> Some("stars"),
      slug |-> Some("astro"), isActive |-> Some(FALSE)]}
    \cup OneField(NoTopicFields, "name", {"Astronomy"})
    \cup OneField(NoTopicFields, "description", {"stars"})
    \cup OneField(NoTopicFields, "slug", {"astro"})
    \cup OneField(NoTopicFields, "isActive", BOOLEAN)

FactProbes ==
    {NoFactFields,
     [topicId |-> Some(1), content |-> Some("Edited"), difficulty |-> Some("advanced"),
      source |-> Some("a site"), sourceMeta |-> Some("meta"),
      origin |-> Some("curated"), isActive |-> Some(FALSE)]}
    \cup OneField(NoFactFields, "topicId", {-1, 0, 1, 2, 999})
    \cup OneField(NoFactFields, "content", {"Edited"})
    \cup OneField(NoFactFields, "difficulty", {"advanced"})
    \cup OneField(NoFactFields, "source", {"a site"})
    \cup OneField(NoFactFields, "sourceMeta", {"meta"})
    \cup OneField(NoFactFields, "origin", {"curated"})
    \cup OneField(NoFactFields, "isActive", BOOLEAN)

ListTopicProbes == [includeInactive : Opt(BOOLEAN)]
ListFactProbes == [topicId : Opt({-1, 0, 1, 2}), includeInactive : Opt(BOOLEAN)]

StateProbes ==
    [seen : Opt(BOOLEAN), seenAt : Opt({7}), isFavorite : Opt(BOOLEAN),
     reaction : Opt({"none", "love"})]

(***************************************************************************)
(* C1. Owner-gated mutation: updateTopic (updateFact) by a signed-in       *)
(* caller who is not the owner of the topic (fact), whatever fields it     *)
(* carries and also when the row has no owner, fails with NOT_FOUND and    *)
(* leaves every row of the table as it was.                                *)
(***************************************************************************)
OwnerGatedMutation ==
    /\ \A u \in Users : \A t \in Rows(topics) : \A rest \in TopicProbes :
          t.ownerId # Some(u) =>
             LET r == updateTopic(u, t.id, rest)
             IN  r.code = "NOT_FOUND" /\ r.tbl = topics /\ r.rows = {}
    /\ \A u \in Users : \A f \in Rows(facts) : \A rest \in FactProbes :
          f.ownerId # Some(u) =>
             LET r == updateFact(u, f.id, rest)
             IN  r.code = "NOT_FOUND" /\ r.tbl = facts /\ r.rows = {}

\* user B has just been refused the update of a topic user A created
OwnerGatedMutationWitness ==
    /\ last.op = "updateTopic"
    /\ last.code = "NOT_FOUND"
    /\ last.user \in Users
    /\ last.input.name # None
    /\ \E t \in Rows(topics) :
          t.id = last.input.id /\ t.ownerId # None /\ t.ownerId # Some(last.user)

(***************************************************************************)
(* C2. listTopics and listFacts, for every caller and every value of       *)
(* includeInactive and topicId, return no row whose ownerId is set and is  *)
(* not the caller.                                                         *)
(***************************************************************************)
ListsAreOwnerScoped ==
    /\ \A u \in Users : \A input \in ListTopicProbes :
          \A t \in listTopics(u, input).rows :
             t.ownerId = None \/ t.ownerId = Some(u)
    /\ \A u \in Users : \A input \in ListFactProbes :
          \A f \in listFacts(u, input).rows :
             f.ownerId = None \/ f.ownerId = Some(u)

\* a caller has listed the facts while another user's active fact was
\* stored, and did not get it
ListsAreOwnerScopedWitness ==
    /\ last.op = "listFacts"
    /\ last.code = "OK"
    /\ last.input.includeInactive = Some(TRUE)
    /\ \E f \in Rows(facts) :
          f.ownerId # None /\ f.ownerId # Some(last.user) /\ f \notin last.rows
    /\ \E f \in last.rows : f.ownerId = Some(last.user)

(***************************************************************************)
(* C3. createFact, createRequest and updateFact called by a signed-in user *)
(* with a topicId (0 and negative numbers included) that is the id of no   *)
(* Topic fail with NOT_FOUND and write nothing; hence every Fact and       *)
(* FactRequest whose topicId is set references an existing Topic.          *)
(***************************************************************************)
TopicRefsHold ==
    /\ \A f \in Rows(facts) :
          f.topicId # None => SelectById(topics, Val(f.topicId)) # {}
    /\ \A q \in Rows(requests) :
          q.topicId # None => SelectById(topics, Val(q.topicId)) # {}

MissingTopicIsRejected ==
    /\ [][(/\ last'.op \in {"createFact", "createRequest", "updateFact"}
           /\ last'.user \in Users
           /\ last'.input.topicId # None
           /\ SelectById(topics, Val(last'.input.topicId)) = {})
          => (/\ last'.code = "NOT_FOUND"
              /\ UNCHANGED <<facts, requests>>)]_vars
    /\ []TopicRefsHold

(***************************************************************************)
(* C8. listFacts returns exactly the facts f with (no topicId given or     *)
(* f.topicId = topicId) and (f.ownerId unset or the caller) and            *)
(* (f.isActive or includeInactive), for every topicId, 0 included.         *)
(***************************************************************************)
ListFactsIsExact ==
    (last.op = "listFacts" /\ last.code = "OK") =>
        last.rows =
            {f \in Rows(facts) :
                /\ last.input.topicId = None \/ f.topicId = last.input.topicId
                /\ f.ownerId = None \/ f.ownerId = Some(last.user)
                /\ f.isActive \/ last.input.includeInactive = Some(TRUE)}

(***************************************************************************)
(* C4. There is at most one UserFactState row per (userId, factId), also   *)
(* when updateUserFactState calls for the same pair overlap statement by   *)
(* statement.                                                              *)
(***************************************************************************)
OneStateRowPerPair ==
    \A s1 \in Rows(states) : \A s2 \in Rows(states) :
        (s1.userId = s2.userId /\ s1.factId = s2.factId) => s1.id = s2.id

(***************************************************************************)
(* C5. updateUserFactState is idempotent under sequential calls: when a    *)
(* call that succeeded is followed at once by the same call (same user,    *)
(* same arguments), the pair has exactly one state row, and its seen,      *)
(* seenAt, isFavorite and reaction are those the second call returned,     *)
(* which are those the first call returned.                                *)
(***************************************************************************)
MergedFields == {"seen", "seenAt", "isFavorite", "reaction"}

SameMerged(a, b) == \A k \in MergedFields : a[k] = b[k]

PairRows(tbl, u, factId) == {s \in Rows(tbl) : s.userId = u /\ s.factId = factId}

UpsertIsIdempotent ==
    [][(/\ last.op = "updateUserFactState" /\ last.code = "OK"
        /\ last'.op = "updateUserFactState" /\ last'.code = "OK"
        /\ last'.user = last.user
        /\ last'.input = last.input
        /\ Cardinality(PairRows(states, last.user, last.input.factId)) <= 1)
       => LET pair == PairRows(states', last.user, last.input.factId)
          IN  /\ Cardinality(pair) = 1
              /\ \A s \in pair : \A second \in last'.rows : \A first \in last.rows :
                    SameMerged(s, second) /\ SameMerged(second, first)]_vars

\* a call has just been repeated with the same arguments, and both succeeded
UpsertIsIdempotentWitness ==
    /\ last.op = "updateUserFactState"
    /\ last.code = "OK"
    /\ last.repeat
    /\ last.input.reaction # None
    /\ \E s \in last.rows : s \in Rows(states) /\ s.updatedAt > s.createdAt

(***************************************************************************)
(* C6. updateUserFactState merges: after a call by a signed-in user for an *)
(* existing fact, each of seen, isFavorite, reaction and seenAt of the     *)
(* pair's row is the value the call provided, else the value the existing  *)
(* row had, else the default (false, false, "none", unset); an existing    *)
(* row is updated in place, id and createdAt kept.  {seen: true} followed  *)
(* by {isFavorite: true} ends with seen and isFavorite both true.          *)
(***************************************************************************)
StateDefaults == [seen |-> FALSE, isFavorite |-> FALSE, reaction |-> "none"]

MergeOf(input, existing, row) ==
    /\ \A k \in {"seen", "isFavorite", "reaction"} :
          row[k] = IF input[k] # None THEN Val(input[k])
                   ELSE IF existing # None THEN Val(existing)[k]
                   ELSE StateDefaults[k]
    /\ row.seenAt = IF input.seenAt # None THEN input.seenAt
                    ELSE IF existing # None THEN Val(existing).seenAt
                    ELSE None

UpsertMergesFields ==
    \A u \in Users : \A f \in Rows(facts) : \A rest \in StateProbes :
        LET input == WithFactId(f.id, rest)
        IN  \A existing \in SelectState(f.id, u) :
               LET r == updateUserFactState(u, input, existing)
               IN  /\ r.code = "OK"
                   /\ Cardinality(r.rows) = 1
                   /\ \A row \in r.rows :
                         /\ row \in Rows(r.tbl)
                         /\ row.userId = u /\ row.factId = f.id
                         /\ MergeOf(input, existing, row)
                         /\ IF existing # None
                            THEN /\ row.id = Val(existing).id
                                 /\ row.createdAt = Val(existing).createdAt
                                 /\ Len(r.tbl) = Len(states)
                            ELSE /\ row.id = Len(states) + 1
                                 /\ Len(r.tbl) = Len(states) + 1
                         /\ \A i \in 1..Len(states) :
                               i # row.id => r.tbl[i] = states[i]

SeenThenFavorite ==
    (/\ last.op = "updateUserFactState" /\ last.code = "OK"
     /\ last.input = WithFactId(last.input.factId, SeenOnly)
     /\ last'.op = "updateUserFactState" /\ last'.code = "OK"
     /\ last'.user = last.user
     /\ last'.input = WithFactId(last.input.factId, FavoriteOnly))
    => \A s \in PairRows(states', last.user, last.input.factId) :
          s.seen /\ s.isFavorite

UpsertMerges == []UpsertMergesFields /\ [][SeenThenFavorite]_vars

\* {isFavorite: true} has just been applied to a row that had seen = true
UpsertMergesWitness ==
    /\ last.op = "updateUserFactState"
    /\ last.code = "OK"
    /\ last.input = WithFactId(last.input.factId, FavoriteOnly)
    /\ \E s \in last.rows :
          /\ s \in Rows(states)
          /\ s.seen /\ s.isFavorite
          /\ s.updatedAt > s.createdAt

(***************************************************************************)
(* C7. A successful updateTopic or updateFact by the owner changes exactly *)
(* the fields the input provides, plus updatedAt, and leaves every other   *)
(* field of the row and every other row as they were; with no field        *)
(* provided it returns the existing row and changes nothing, updatedAt     *)
(* included.                                                               *)
(***************************************************************************)
Provided(rest) == {k \in DOMAIN rest : rest[k] # None}

\* row2 is row with exactly the provided fields and updatedAt replaced
PatchedExactly(row, row2, rest, nullable, t) ==
    /\ DOMAIN row2 = DOMAIN row
    /\ \A k \in DOMAIN row :
          IF k \in Provided(rest)
          THEN (IF k \in nullable THEN row2[k] = rest[k] ELSE Some(row2[k]) = rest[k])
          ELSE IF k = "updatedAt" THEN row2[k] = t
          ELSE row2[k] = row[k]

PartialUpdateOf(tbl, row, rest, nullable, r) ==
    r.code = "OK" =>
        IF Provided(rest) = {}
        THEN r.tbl = tbl /\ r.rows = {row} /\ ~r.wrote
        ELSE /\ Len(r.tbl) = Len(tbl)
             /\ \A i \in 1..Len(tbl) :
                   IF tbl[i].id = row.id
                   THEN /\ PatchedExactly(row, r.tbl[i], rest, nullable, now)
                        /\ r.rows = {r.tbl[i]}
                   ELSE r.tbl[i] = tbl[i]

PartialUpdatesKeepTheRest ==
    /\ \A u \in Users : \A t \in Rows(topics) : \A rest \in TopicProbes :
          t.ownerId = Some(u) =>
             LET r == updateTopic(u, t.id, rest)
             IN  r.code = "OK" /\ PartialUpdateOf(topics, t, rest, TopicNullable, r)
    /\ \A u \in Users : \A f \in Rows(facts) : \A rest \in FactProbes :
          f.ownerId = Some(u) =>
             PartialUpdateOf(facts, f, rest, FactNullable, updateFact(u, f.id, rest))

\* an update touches no table but the one it names
UpdatesTouchOneTable ==
    /\ last'.op = "updateTopic" => UNCHANGED <<facts, requests, states>>
    /\ last'.op = "updateFact" => UNCHANGED <<topics, requests, states>>

PartialUpdates == []PartialUpdatesKeepTheRest /\ [][UpdatesTouchOneTable]_vars

\* the owner has just changed content and topicId of a fact that keeps the
\* source, origin and isActive it was created with, next to an untouched row
PartialUpdatesWitness ==
    /\ last.op = "updateFact"
    /\ last.code = "OK"
    /\ last.input.content # None
    /\ last.input.source = None
    /\ \E f \in last.rows :
          /\ f \in Rows(facts)
          /\ f.ownerId = Some(last.user)
          /\ f.content = "Edited"
          /\ f.source = Some("a book")
          /\ ~f.isActive
          /\ f.updatedAt > f.createdAt
    /\ SeedFact \in Rows(facts)

(***************************************************************************)
(* C10. Ownership is immutable: the id, ownerId and createdAt of a Topic   *)
(* or Fact never change once the row exists, no row is ever deleted, and   *)
(* the ownerId of a row a call creates is the caller.                      *)
(***************************************************************************)
RowsKeepOwner(tbl, tbl2, caller) ==
    /\ \A r \in Rows(tbl) :
          \E r2 \in Rows(tbl2) :
             r2.id = r.id /\ r2.ownerId = r.ownerId /\ r2.createdAt = r.createdAt
    /\ \A r2 \in Rows(tbl2) : \A r3 \in Rows(tbl2) : r2.id = r3.id => r2 = r3
    /\ \A r2 \in Rows(tbl2) :
          (\A r \in Rows(tbl) : r.id # r2.id) => r2.ownerId = Some(caller)

OwnershipIsImmutable ==
    [][/\ RowsKeepOwner(topics, topics', last'.user)
       /\ RowsKeepOwner(facts, facts', last'.user)]_vars

\* the owner has just updated a topic created earlier
OwnershipIsImmutableWitness ==
    /\ last.op = "updateTopic"
    /\ last.code = "OK"
    /\ \E t \in last.rows :
          /\ t \in Rows(topics)
          /\ t.ownerId = Some(last.user)
          /\ t.name = "Astronomy"
          /\ t.updatedAt > t.createdAt

(***************************************************************************)
(* C9. Each of the nine server actions, called with no signed-in user,     *)
(* fails with UNAUTHORIZED before any store statement: it returns no row   *)
(* and the four tables are as they were.                                   *)
(***************************************************************************)
Refused(r, tbl) == r.code = "UNAUTHORIZED" /\ r.rows = {} /\ r.tbl = tbl /\ ~r.wrote

AnonymousIsRefused ==
    /\ \A input \in TopicCreateInputs : Refused(createTopic(NoUser, input), topics)
    /\ \A id \in 1..(Len(topics) + 1) : \A rest \in TopicProbes :
          Refused(updateTopic(NoUser, id, rest), topics)
    /\ \A input \in ListTopicProbes : Refused(listTopics(NoUser, input), topics)
    /\ \A input \in FactCreateInputs : Refused(createFact(NoUser, input), facts)
    /\ \A id \in 1..(Len(facts) + 1) : \A rest \in FactProbes :
          Refused(updateFact(NoUser, id, rest), facts)
    /\ \A input \in ListFactProbes : Refused(listFacts(NoUser, input), facts)
    /\ \A input \in RequestInputs : Refused(createRequest(NoUser, input), requests)
    /\ \A id \in 1..(Len(facts) + 1) : \A rest \in StateProbes :
          \A existing \in SelectState(id, NoUser) :
             Refused(updateUserFactState(NoUser, WithFactId(id, rest), existing), states)
    /\ \A input \in ListStateInputs :
          Refused(listUserFactState(NoUser, input), states)

AnonymousStep ==
    (last'.user = NoUser /\ last'.op # "none") =>
        /\ last'.code = "UNAUTHORIZED"
        /\ last'.rows = {}
        /\ UNCHANGED <<topics, facts, requests, states, now>>

AnonymousCalls == []AnonymousIsRefused /\ [][AnonymousStep]_vars

\* an anonymous createFact has just been refused by a store that holds rows
\* of signed-in users in three tables
AnonymousCallsWitness ==
    /\ last.op = "createFact"
    /\ last.user = NoUser
    /\ last.code = "UNAUTHORIZED"
    /\ Len(topics) > 1 /\ Len(facts) > 1

====
